---- MODULE Spec2Model ----
(***************************************************************************)
(* SimInfoSync (src/sim_info_sync.py): a background loop copies the        *)
(* scoring and telemetry segments written by an independent producer,      *)
(* verifies the copies by their version stamps, locates the local player   *)
(* and publishes LastScor, LastTele and players_index to the consumer.     *)
(*                                                                         *)
(* A scoring record is [vb, ve, veh] with veh[s] = [mID, mIsPlayer]; a     *)
(* telemetry record is [vb, ve, veh] with veh[s] = [mID, mElapsedTime], the *)
(* payload being the time of the frame; vb and ve stand for                *)
(* mVersionUpdateBegin and mVersionUpdateEnd.                              *)
(***************************************************************************)
EXTENDS Integers, FiniteSets, Sequences, TLC

\* ------------------------------------------------------------------ sizes
\* The number of vehicle slots the producer ever writes; the slots from
\* NumSlots to ArraySize - 1 of every record stay zero-filled.
NumSlots == 2
\* The producer stops after this many scoring writes.
MaxVersion == 2
\* The producer stops after this many telemetry writes.
MaxTeleVersion == 1
\* ... or, where it writes nothing but frames without a player, after this many.
MaxStamp == 8
\* The number of threads startUpdating can be made to create.
MaxThreads == 2
\* The number of close() calls the consumer makes.
MaxCloses == 2
\* The tick count of the two counters of __infoUpdate (the literal 70 of
\* lines 164 and 181; the literal 71 of lines 143 and 178 is Window + 1).
Window == 2

\* The largest value the producer writes to an mIsPlayer field where it writes
\* values other than 0 and 1.
MaxFlag == 2

\* The length of mVehicles (range(128) in __playerVerified).
ArraySize == 128

\* A first value of players_index that is NOT the code's: one past the array.
InitIndexPastEnd == ArraySize

\* players_index before the first scan
InitIndex == 99

Slots == 0 .. (NumSlots - 1)
Threads == 1 .. MaxThreads
Segs == <<"tele", "scor", "ext", "ffb">>
SegSet == {"tele", "scor", "ext", "ffb"}
RestoreCap == Window + 1

\* Python's None, for a record that was copied from an unassigned field.
None == [none |-> TRUE]

VARIABLES
    shmScor,            \* the scoring segment, as the producer has written it
    shmTele,            \* the telemetry segment
    segAvail,           \* the segments can be opened (mmap.mmap, open of lines 60-76)
    Rf2,                \* Rf2[seg]: self.Rf2Tele .. self.Rf2Ffb is an object (TRUE) or None
    mapOpen,            \* mapOpen[seg]: the mapping self._rf2_<seg> is open
    DefScor, DefTele,   \* default copies taken by start_mmap
    LastScor, LastTele, \* the published records
    players_index,
    data_updating,
    pc,                 \* pc[t]: the line thread t is at
    ref,                \* ref[t]: the raw object thread t holds while it copies
    data_scor, data_tele,
    players_mid, last_version_update, re_version_update,
    mmap_restarted, check_counter, restore_counter,
    pre,                \* pre[t]: the published view when thread t's tick began
    did,                \* did[t]: what the freeze step of thread t's tick did
    steady,             \* steady[t]: each tick of t so far copied a new scoring stamp
    mpc,                \* the consumer's position
    m_rec,              \* the record an accessor has loaded
    observed,           \* what the last accessor call returned
    committed,          \* the views committed since the last accessor call began
    defaults,           \* set_default_mmap calls since the scoring stamp last changed
    stopReturned,       \* stopUpdating() has returned since the last start
    closes,             \* close() calls made by the consumer
    lastClose           \* what the consumer's last close() did

vars == <<shmScor, shmTele, segAvail, Rf2, mapOpen, DefScor, DefTele, LastScor, LastTele,
          players_index, data_updating, pc, ref, data_scor, data_tele,
          players_mid, last_version_update, re_version_update, mmap_restarted,
          check_counter, restore_counter, pre, did, steady, mpc, m_rec, observed,
          committed, defaults, stopReturned, closes, lastClose>>

shmVars == <<shmScor, shmTele, segAvail>>
mapVars == <<Rf2, mapOpen, DefScor, DefTele>>
viewVars == <<LastScor, LastTele, players_index>>
loopVars == <<pc, ref, data_scor, data_tele, players_mid, last_version_update,
              re_version_update, mmap_restarted, check_counter, restore_counter,
              pre, did, steady>>
userVars == <<mpc, m_rec, observed, stopReturned, closes, lastClose>>

\* The published view: what syncedVehicleScoring/Telemetry read.
View == [idx |-> players_index, scor |-> LastScor, tele |-> LastTele]

\* -------------------------------------------------------------- records
ScorVeh(flags) == [s \in Slots |-> [mID |-> s + 1, mIsPlayer |-> flags[s]]]
TeleVeh(rot, time) ==
    [s \in Slots |-> [mID |-> ((s + rot) % NumSlots) + 1, mElapsedTime |-> time]]

\* A segment nobody has written yet is zero-filled.
ZeroScor == [vb |-> 0, ve |-> 0, veh |-> [s \in Slots |-> [mID |-> 0, mIsPlayer |-> 0]]]
ZeroTele == [vb |-> 0, ve |-> 0, veh |-> [s \in Slots |-> [mID |-> 0, mElapsedTime |-> 0]]]

\* mVehicles[i] of record d, for any position of the array.
Veh(d, i) ==
    IF i \in DOMAIN d.veh THEN d.veh[i]
    ELSE [mID |-> 0, mIsPlayer |-> 0, mElapsedTime |-> 0]

FlagsNone == [s \in Slots |-> 0]
FlagsAt(p) == [s \in Slots |-> IF s = p THEN 1 ELSE 0]
\* The player flags the producer writes: no player, the player in the first
\* slot, the player in the last slot.
ScorFlags == {FlagsNone, FlagsAt(0), FlagsAt(NumSlots - 1)}
\* Every assignment of 0 .. MaxFlag to the mIsPlayer fields of the slots.
AnyFlags == [Slots -> 0 .. MaxFlag]
\* The telemetry slot orders the producer writes: the scoring order, or shifted by one.
TeleRots == {0, 1}

\* ------------------------------------------------------------- producer
\* The simulation starts to write a scoring frame: mVersionUpdateBegin first.
\* It writes one segment at a time.
ProducerBeginScor(flags, cap) ==
    /\ shmScor.vb = shmScor.ve
    /\ shmTele.vb = shmTele.ve
    /\ shmScor.vb < cap
    /\ shmScor' = [vb |-> shmScor.vb + 1, ve |-> shmScor.ve, veh |-> ScorVeh(flags)]
    /\ UNCHANGED <<shmTele, segAvail, mapVars, viewVars, data_updating, loopVars, userVars, committed>>
    /\ defaults' = 0

\* ... and ends it: mVersionUpdateEnd last.
ProducerEndScor ==
    /\ shmScor.vb # shmScor.ve
    /\ shmScor' = [shmScor EXCEPT !.ve = shmScor.vb]
    /\ UNCHANGED <<shmTele, segAvail, mapVars, viewVars, data_updating, loopVars, userVars, committed>>
    /\ defaults' = 0

ProducerBeginTele(rot) ==
    /\ shmTele.vb = shmTele.ve
    /\ shmScor.vb = shmScor.ve
    /\ shmTele.vb < MaxTeleVersion
    /\ shmTele' = [vb |-> shmTele.vb + 1, ve |-> shmTele.ve, veh |-> TeleVeh(rot, shmTele.vb + 1)]
    /\ UNCHANGED <<shmScor, segAvail, mapVars, viewVars, data_updating, loopVars, userVars, committed, defaults>>

ProducerEndTele ==
    /\ shmTele.vb # shmTele.ve
    /\ shmTele' = [shmTele EXCEPT !.ve = shmTele.vb]
    /\ UNCHANGED <<shmScor, segAvail, mapVars, viewVars, data_updating, loopVars, userVars, committed, defaults>>

Producer ==
    \/ \E flags \in ScorFlags : ProducerBeginScor(flags, MaxVersion)
    \/ ProducerEndScor
    \/ \E rot \in TeleRots : ProducerBeginTele(rot)
    \/ ProducerEndTele

\* ------------------------------------------------------ mapping, lifecycle
\* The raw object a thread loads from self.Rf2<seg>: "cur" is the object of the
\* present mapping, "old" one of a mapping start_mmap has replaced since, "None"
\* the value close() leaves in the field, "null" no object held.
Load(seg) == IF Rf2[seg] THEN "cur" ELSE "None"

\* The buffer exports of the present mapping of seg once the field self.Rf2<seg>
\* is unassigned: the objects threads other than `self` still hold.
Exports(seg, self) ==
    {t \in Threads : t # self /\ ref[t] = "cur" /\ pc[t] = "copy_" \o seg}

\* close(), lines 103-117: the mappings are closed in the order tele, scor, ext,
\* ffb; the first that still has exports raises BufferError, which ends the
\* method with that mapping and those after it open.
RECURSIVE CloseFrom(_, _, _)
CloseFrom(i, self, open) ==
    IF i > Len(Segs) THEN open
    ELSE IF Exports(Segs[i], self) # {} THEN open
    ELSE CloseFrom(i + 1, self, [open EXCEPT ![Segs[i]] = FALSE])

CloseResult(self) == CloseFrom(1, self, mapOpen)

\* __init__, lines 29-54, with the segments in one of the states the producer
\* can have left them in.
InitShm ==
    { <<ZeroScor, ZeroTele>>,
      <<[vb |-> 1, ve |-> 1, veh |-> ScorVeh(FlagsAt(0))], [vb |-> 1, ve |-> 1, veh |-> TeleVeh(0, 1)]>>,
      <<[vb |-> 1, ve |-> 0, veh |-> ScorVeh(FlagsAt(0))], [vb |-> 1, ve |-> 1, veh |-> TeleVeh(0, 1)]>> }

Init ==
    /\ \E s \in InitShm : shmScor = s[1] /\ shmTele = s[2]
    /\ segAvail = TRUE
    /\ Rf2 = [seg \in SegSet |-> TRUE]
    /\ mapOpen = [seg \in SegSet |-> TRUE]
    /\ DefScor = shmScor
    /\ DefTele = shmTele
    /\ LastScor = shmScor
    /\ LastTele = shmTele
    /\ players_index = InitIndex
    /\ data_updating = FALSE
    /\ pc = [t \in Threads |-> "idle"]
    /\ ref = [t \in Threads |-> "null"]
    /\ data_scor = [t \in Threads |-> None]
    /\ data_tele = [t \in Threads |-> None]
    /\ players_mid = [t \in Threads |-> 0]
    /\ last_version_update = [t \in Threads |-> 0]
    /\ re_version_update = [t \in Threads |-> 0]
    /\ mmap_restarted = [t \in Threads |-> TRUE]
    /\ check_counter = [t \in Threads |-> 0]
    /\ restore_counter = [t \in Threads |-> RestoreCap]
    /\ pre = [t \in Threads |-> None]
    /\ did = [t \in Threads |-> "nothing"]
    /\ steady = [t \in Threads |-> TRUE]
    /\ mpc = "ready"
    /\ m_rec = None
    /\ observed = None
    /\ committed = {}
    /\ defaults = 0
    /\ stopReturned = FALSE
    /\ closes = 0
    /\ lastClose = "none"

\* ------------------------------------------------------------ the loop
\* dataVerified, lines 132-134
dataVerified(input_data) == input_data.ve = input_data.vb

\* A scan that is NOT the code's: any non-zero mIsPlayer counts.
PlayerScanNonZero(input_data, p) ==
    LET hits == {q \in DOMAIN input_data.veh :
                    q >= p /\ q < ArraySize /\ input_data.veh[q].mIsPlayer # 0}
    IN  IF hits = {} THEN -1 ELSE CHOOSE q \in hits : \A r \in hits : q <= r

\* __playerVerified, lines 124-129: the position the scan stops at, from
\* position p on, which is the first position of the array with mIsPlayer = 1;
\* -1 when the scan runs off the end. The positions a record does not hold
\* are zero-filled (Veh), so the scan passes them.
PlayerScan(input_data, p) ==
    LET hits == {q \in DOMAIN input_data.veh :
                    q >= p /\ q < ArraySize /\ input_data.veh[q].mIsPlayer = 1}
    IN  IF hits = {} THEN -1 ELSE CHOOSE q \in hits : \A r \in hits : q <= r

\* A condition that is NOT the code's: line 158 without the dataVerified of line 157.
TeleMatchesUnverified(tele, index, mid) == Veh(tele, index).mID = mid

\* The condition of line 157-158.
TeleMatches(tele, index, mid) == dataVerified(tele) /\ Veh(tele, index).mID = mid

\* A condition that is NOT the code's: lines 165-166 without "not mmap_restarted".
FreezeDetectedNoLatch(restarted, last, now) == last > 0 /\ last = now

\* The condition of lines 165-166.
FreezeDetected(restarted, last, now) == ~restarted /\ last > 0 /\ last = now

\* The condition of line 181.
RestoreDue(counter) == counter = Window

\* The producer has advanced its stamp between two copies of the scoring segment.
NewStamp(before, now) == before = None \/ (before.vb # now.vb /\ before.ve # now.ve)

Reading == mpc \in {"read_tele", "read_scor"}
\* The view a tick has committed, recorded from the start of an accessor call on.
Commit(v) == IF Reading \/ observed # None THEN committed \cup {v} ELSE committed

\* line 192 of the tick before, line 145, and the load of self.Rf2Scor of
\* line 146; data_scor keeps the copy of the tick before until line 146 assigns it
LoopCheck(t) ==
    /\ pc[t] = "loop"
    /\ IF data_updating
       THEN /\ pc' = [pc EXCEPT ![t] = "copy_scor"]
            /\ ref' = [ref EXCEPT ![t] = Load("scor")]
            /\ pre' = [pre EXCEPT ![t] = View]
       ELSE /\ pc' = [pc EXCEPT ![t] = "done"]
            /\ pre' = [pre EXCEPT ![t] = None]
            /\ UNCHANGED ref
    /\ data_tele' = [data_tele EXCEPT ![t] = None]
    /\ did' = [did EXCEPT ![t] = "nothing"]
    /\ UNCHANGED <<shmVars, mapVars, viewVars, data_updating, data_scor, steady,
                   players_mid, last_version_update, re_version_update, mmap_restarted,
                   check_counter, restore_counter, userVars, committed, defaults>>

\* line 146: the copy of the scoring segment; then the load of self.Rf2Tele
CopyScor(t) ==
    /\ pc[t] = "copy_scor"
    /\ data_scor' = [data_scor EXCEPT ![t] = IF ref[t] = "None" THEN None ELSE shmScor]
    /\ steady' = [steady EXCEPT ![t] = @ /\ ref[t] # "None" /\ NewStamp(data_scor[t], shmScor)]
    /\ ref' = [ref EXCEPT ![t] = Load("tele")]
    /\ pc' = [pc EXCEPT ![t] = "copy_tele"]
    /\ UNCHANGED <<shmVars, mapVars, viewVars, data_updating, data_tele,
                   players_mid, last_version_update, re_version_update, mmap_restarted,
                   check_counter, restore_counter, pre, did, userVars, committed, defaults>>

\* line 147: the copy of the telemetry segment; then the load of self.Rf2Ext
CopyTele(t) ==
    /\ pc[t] = "copy_tele"
    /\ data_tele' = [data_tele EXCEPT ![t] = IF ref[t] = "None" THEN None ELSE shmTele]
    /\ ref' = [ref EXCEPT ![t] = Load("ext")]
    /\ pc' = [pc EXCEPT ![t] = "copy_ext"]
    /\ UNCHANGED <<shmVars, mapVars, viewVars, data_updating, data_scor,
                   players_mid, last_version_update, re_version_update, mmap_restarted,
                   check_counter, restore_counter, pre, did, steady, userVars, committed, defaults>>

\* line 148: the copy of the extended segment; then the load of self.Rf2Ffb
CopyExt(t) ==
    /\ pc[t] = "copy_ext"
    /\ ref' = [ref EXCEPT ![t] = Load("ffb")]
    /\ pc' = [pc EXCEPT ![t] = "copy_ffb"]
    /\ UNCHANGED <<shmVars, mapVars, viewVars, data_updating, data_scor, data_tele,
                   players_mid, last_version_update, re_version_update, mmap_restarted,
                   check_counter, restore_counter, pre, did, steady, userVars, committed, defaults>>

\* line 149: the copy of the force feedback segment
CopyFfb(t) ==
    /\ pc[t] = "copy_ffb"
    /\ ref' = [ref EXCEPT ![t] = "null"]
    /\ pc' = [pc EXCEPT ![t] = "verify"]
    /\ UNCHANGED <<shmVars, mapVars, viewVars, data_updating, data_scor, data_tele,
                   players_mid, last_version_update, re_version_update, mmap_restarted,
                   check_counter, restore_counter, pre, did, steady, userVars, committed, defaults>>

\* A variant of line 152 that is NOT the code's: the position resolved by an
\* earlier tick is kept instead of scanning the tick's copy again.
VerifyCached(t) ==
    /\ pc[t] = "verify"
    /\ IF data_scor[t] = None
       THEN /\ pc' = [pc EXCEPT ![t] = "crashed"]
            /\ UNCHANGED players_index
       ELSE IF dataVerified(data_scor[t]) /\ PlayerScan(data_scor[t], 0) >= 0
       THEN /\ players_index' = IF players_index \in Slots THEN players_index
                                 ELSE PlayerScan(data_scor[t], 0)
            /\ pc' = [pc EXCEPT ![t] = "pub_scor"]
       ELSE /\ pc' = [pc EXCEPT ![t] = "freeze"]
            /\ UNCHANGED players_index
    /\ UNCHANGED <<shmVars, mapVars, LastScor, LastTele, data_updating, ref, data_scor,
                   data_tele, players_mid, last_version_update, re_version_update,
                   mmap_restarted, check_counter, restore_counter, pre, did, steady, userVars,
                   committed, defaults>>

\* line 152: dataVerified(data_scor) and __playerVerified(data_scor), which
\* assigns players_index (line 127). A copy that is None has no
\* mVersionUpdateEnd: the AttributeError ends the thread.
Verify(t) ==
    /\ pc[t] = "verify"
    /\ IF data_scor[t] = None
       THEN /\ pc' = [pc EXCEPT ![t] = "crashed"]
            /\ UNCHANGED players_index
       ELSE IF dataVerified(data_scor[t]) /\ PlayerScan(data_scor[t], 0) >= 0
       THEN /\ players_index' = PlayerScan(data_scor[t], 0)
            /\ pc' = [pc EXCEPT ![t] = "pub_scor"]
       ELSE /\ pc' = [pc EXCEPT ![t] = "freeze"]
            /\ UNCHANGED players_index
    /\ UNCHANGED <<shmVars, mapVars, LastScor, LastTele, data_updating, ref, data_scor,
                   data_tele, players_mid, last_version_update, re_version_update,
                   mmap_restarted, check_counter, restore_counter, pre, did, steady, userVars,
                   committed, defaults>>

\* lines 153-154
PubScor(t) ==
    /\ pc[t] = "pub_scor"
    /\ LastScor' = data_scor[t]
    /\ players_mid' = [players_mid EXCEPT ![t] = Veh(data_scor[t], players_index).mID]
    /\ pc' = [pc EXCEPT ![t] = "pub_tele"]
    /\ UNCHANGED <<shmVars, mapVars, LastTele, players_index, data_updating, ref,
                   data_scor, data_tele, last_version_update, re_version_update,
                   mmap_restarted, check_counter, restore_counter, pre, did, steady, userVars,
                   committed, defaults>>

\* lines 157-159
PubTele(t) ==
    /\ pc[t] = "pub_tele"
    /\ IF data_tele[t] = None
       THEN /\ pc' = [pc EXCEPT ![t] = "crashed"]
            /\ UNCHANGED LastTele
       ELSE /\ LastTele' = IF TeleMatches(data_tele[t], players_index, players_mid[t])
                           THEN data_tele[t] ELSE LastTele
            /\ pc' = [pc EXCEPT ![t] = "freeze"]
    /\ players_mid' = [players_mid EXCEPT ![t] = 0]  \* reassigned before its next use
    /\ committed' = Commit([idx |-> players_index, scor |-> LastScor, tele |-> LastTele'])
    /\ UNCHANGED <<shmVars, mapVars, LastScor, players_index, data_updating, ref,
                   data_scor, data_tele, last_version_update,
                   re_version_update, mmap_restarted, check_counter, restore_counter,
                   pre, did, steady, userVars, defaults>>

\* lines 162-183: the two counters, reset_mmap (close, then start_mmap, which
\* maps the segments anew and copies them to Def*) and set_default_mmap.
\* Objects of the replaced mappings that other threads hold become "old".
\* When the segments cannot be opened, start_mmap raises out of reset_mmap and
\* out of __infoUpdate after close() has run: the thread ends at line 167.
Freeze(t) ==
    /\ pc[t] = "freeze"
    /\ LET now == LastScor.ve
           counted == check_counter[t] + 1
           windowEnd == counted > Window
           doReset == windowEnd /\ FreezeDetected(mmap_restarted[t], last_version_update[t], now)
           restarted1 == IF doReset THEN TRUE ELSE mmap_restarted[t]
           re1 == IF doReset THEN now ELSE re_version_update[t]
           changed == restarted1 /\ re1 # now
           rc1 == IF ~restarted1 THEN restore_counter[t]
                  ELSE IF changed THEN 0
                  ELSE IF restore_counter[t] < RestoreCap THEN restore_counter[t] + 1
                  ELSE restore_counter[t]
           doDefault == RestoreDue(rc1)
           defScor1 == IF doReset THEN shmScor ELSE DefScor
           defTele1 == IF doReset THEN shmTele ELSE DefTele
       IN  IF doReset /\ ~segAvail
           THEN /\ check_counter' = [check_counter EXCEPT ![t] = counted]
                /\ Rf2' = [seg \in SegSet |-> FALSE]
                /\ mapOpen' = CloseResult(t)
                /\ did' = [did EXCEPT ![t] = "reopen_failed"]
                /\ pc' = [pc EXCEPT ![t] = "crashed"]
                /\ UNCHANGED <<last_version_update, re_version_update, mmap_restarted,
                               restore_counter, ref, DefScor, DefTele, LastScor, LastTele,
                               committed, defaults>>
           ELSE /\ check_counter' = [check_counter EXCEPT ![t] = IF windowEnd THEN 0 ELSE counted]
                /\ last_version_update' = [last_version_update EXCEPT ![t] = IF windowEnd THEN now ELSE @]
                /\ re_version_update' = [re_version_update EXCEPT ![t] = re1]
                /\ mmap_restarted' = [mmap_restarted EXCEPT ![t] = IF changed THEN FALSE ELSE restarted1]
                /\ restore_counter' = [restore_counter EXCEPT ![t] = rc1]
                /\ Rf2' = IF doReset THEN [seg \in SegSet |-> TRUE] ELSE Rf2
                /\ mapOpen' = IF doReset THEN [seg \in SegSet |-> TRUE] ELSE mapOpen
                /\ ref' = IF doReset THEN [u \in Threads |-> IF ref[u] = "cur" THEN "old" ELSE ref[u]]
                          ELSE ref
                /\ DefScor' = defScor1
                /\ DefTele' = defTele1
                /\ LastScor' = IF doDefault THEN defScor1 ELSE LastScor
                /\ LastTele' = IF doDefault THEN defTele1 ELSE LastTele
                /\ did' = [did EXCEPT ![t] = IF doReset /\ doDefault THEN "both"
                                             ELSE IF doReset THEN "reset"
                                             ELSE IF doDefault THEN "default" ELSE "nothing"]
                /\ committed' = IF doDefault
                                THEN Commit([idx |-> players_index, scor |-> defScor1, tele |-> defTele1])
                                ELSE committed
                /\ defaults' = IF doDefault /\ defaults < 2 THEN defaults + 1 ELSE defaults
                /\ pc' = [pc EXCEPT ![t] = "loop"]
    /\ UNCHANGED <<shmVars, players_index, data_updating, data_scor, data_tele,
                   players_mid, pre, steady, userVars>>

\* The environment: the segments go away (the simulation has exited,
\* /dev/shm/$rFactor2SMMP_* are removed); open of line 69 raises from then on.
SegmentsLost ==
    /\ segAvail
    /\ segAvail' = FALSE
    /\ UNCHANGED <<shmScor, shmTele, mapVars, viewVars, data_updating, loopVars, userVars,
                   committed, defaults>>

Tick(t) ==
    \/ LoopCheck(t)
    \/ CopyScor(t)
    \/ CopyTele(t)
    \/ CopyExt(t)
    \/ CopyFfb(t)
    \/ Verify(t)
    \/ PubScor(t)
    \/ PubTele(t)
    \/ Freeze(t)

InLoop(t) == pc[t] \notin {"idle", "done", "crashed"}

\* ------------------------------------------------------------ consumer
\* startUpdating, lines 198-201: the flag, and a new thread at line 138
startUpdating ==
    /\ mpc = "ready"
    /\ \E t \in Threads :
        /\ pc[t] = "idle"
        /\ \A u \in Threads : u < t => pc[u] # "idle"
        /\ pc' = [pc EXCEPT ![t] = "loop"]
    /\ data_updating' = TRUE
    /\ stopReturned' = FALSE
    /\ UNCHANGED <<shmVars, mapVars, viewVars, ref, data_scor, data_tele, players_mid,
                   last_version_update, re_version_update, mmap_restarted, check_counter,
                   restore_counter, pre, did, steady, mpc, m_rec, observed, closes, lastClose,
                   committed, defaults>>

\* stopUpdating, line 206
stopUpdating ==
    /\ mpc = "ready"
    /\ data_updating' = FALSE
    /\ mpc' = "stop_sleep"
    /\ UNCHANGED <<shmVars, mapVars, viewVars, loopVars, m_rec, observed, stopReturned,
                   closes, lastClose, committed, defaults>>

\* stopUpdating, line 207: the sleep ends and the call returns
stopReturn ==
    /\ mpc = "stop_sleep"
    /\ mpc' = "ready"
    /\ stopReturned' = TRUE
    /\ UNCHANGED <<shmVars, mapVars, viewVars, data_updating, loopVars, m_rec, observed,
                   closes, lastClose, committed, defaults>>

\* close(), lines 100-117, called by the consumer, who has not started the loop
\* or has stopped it
close ==
    /\ mpc = "ready"
    /\ ~data_updating
    /\ closes < MaxCloses
    /\ Rf2' = [seg \in SegSet |-> FALSE]
    /\ mapOpen' = CloseResult(0)
    /\ closes' = closes + 1
    /\ lastClose' = IF \A seg \in SegSet : ~mapOpen'[seg] THEN "closed" ELSE "BufferError"
    /\ UNCHANGED <<shmVars, DefScor, DefTele, viewVars, data_updating, loopVars, mpc,
                   m_rec, observed, stopReturned, committed, defaults>>

\* The view as the last finished publish step left it.
LastCommitted ==
    IF \E t \in Threads : pc[t] \in {"pub_scor", "pub_tele"}
    THEN pre[CHOOSE t \in Threads : pc[t] \in {"pub_scor", "pub_tele"}]
    ELSE View

\* syncedVehicleTelemetry / syncedVehicleScoring, lines 211 and 215: the load of
\* self.LastTele (self.LastScor) ...
syncedBegin(which) ==
    /\ mpc = "ready"
    /\ m_rec' = IF which = "tele" THEN LastTele ELSE LastScor
    /\ mpc' = "read_" \o which
    /\ observed' = None
    /\ committed' = {LastCommitted}
    /\ UNCHANGED <<shmVars, mapVars, viewVars, data_updating, loopVars, stopReturned,
                   closes, lastClose, defaults>>

\* ... and then the load of self.players_index and the subscript, which raises
\* IndexError outside the array
syncedEnd ==
    /\ Reading
    /\ observed' = [which |-> IF mpc = "read_tele" THEN "tele" ELSE "scor",
                    rec |-> m_rec, idx |-> players_index,
                    result |-> IF players_index \in 0 .. (ArraySize - 1)
                               THEN Veh(m_rec, players_index) ELSE [IndexError |-> TRUE]]
    /\ mpc' = "ready"
    /\ m_rec' = None
    /\ UNCHANGED <<shmVars, mapVars, viewVars, data_updating, loopVars, stopReturned,
                   closes, lastClose, committed, defaults>>

\* ------------------------------------------------------- specifications
\* One loop, started once, beside the producer.
NextLoop ==
    \/ Producer
    \/ (\A t \in Threads : pc[t] = "idle") /\ startUpdating
    \/ Tick(1)

SpecLoop == Init /\ [][NextLoop]_vars

\* One loop beside a producer that writes scoring frames without a player flag
\* and leaves the telemetry segment as it is.
NextNoPlayer ==
    \/ ProducerBeginScor(FlagsNone, MaxStamp)
    \/ ProducerEndScor
    \/ (\A t \in Threads : pc[t] = "idle") /\ startUpdating
    \/ Tick(1)

SpecNoPlayer == Init /\ [][NextNoPlayer]_vars

\* One loop beside the producer, and a consumer that calls the accessors.
NextSync ==
    \/ Producer
    \/ (\A t \in Threads : pc[t] = "idle") /\ startUpdating
    \/ Tick(1)
    \/ \E which \in {"tele", "scor"} : syncedBegin(which)
    \/ syncedEnd

SpecSync == Init /\ [][NextSync]_vars

\* The consumer's calls of startUpdating, stopUpdating and close, and the
\* loops they start, while the producer is at rest.
NextLife ==
    \/ startUpdating
    \/ stopUpdating
    \/ stopReturn
    \/ close
    \/ \E t \in Threads : Tick(t)

SpecLife == Init /\ [][NextLife]_vars

\* Line 152 as a function of its inputs: the loop is at line 152 with any
\* scoring copy (any stamp pair, any mIsPlayer values) and any players_index an
\* earlier scan or the constructor can have left, and takes that step.
ScanInputs ==
    {[vb |-> b, ve |-> e, veh |-> ScorVeh(flags)] :
        b \in 0 .. MaxVersion, e \in 0 .. MaxVersion, flags \in AnyFlags}

InitScan ==
    /\ shmScor \in ScanInputs
    /\ shmTele = ZeroTele
    /\ segAvail = TRUE
    /\ Rf2 = [seg \in SegSet |-> TRUE]
    /\ mapOpen = [seg \in SegSet |-> TRUE]
    /\ DefScor = ZeroScor
    /\ DefTele = ZeroTele
    /\ LastScor = ZeroScor
    /\ LastTele = ZeroTele
    /\ players_index \in {InitIndex} \cup Slots
    /\ data_updating = TRUE
    /\ pc = [t \in Threads |-> IF t = 1 THEN "verify" ELSE "idle"]
    /\ ref = [t \in Threads |-> "null"]
    /\ data_scor = [t \in Threads |-> IF t = 1 THEN shmScor ELSE None]
    /\ data_tele = [t \in Threads |-> IF t = 1 THEN shmTele ELSE None]
    /\ players_mid = [t \in Threads |-> 0]
    /\ last_version_update = [t \in Threads |-> 0]
    /\ re_version_update = [t \in Threads |-> 0]
    /\ mmap_restarted = [t \in Threads |-> TRUE]
    /\ check_counter = [t \in Threads |-> 0]
    /\ restore_counter = [t \in Threads |-> RestoreCap]
    /\ pre = [t \in Threads |-> IF t = 1 THEN View ELSE None]
    /\ did = [t \in Threads |-> "nothing"]
    /\ steady = [t \in Threads |-> TRUE]
    /\ mpc = "ready"
    /\ m_rec = None
    /\ observed = None
    /\ committed = {}
    /\ defaults = 0
    /\ stopReturned = FALSE
    /\ closes = 0
    /\ lastClose = "none"

NextScan == Verify(1)

SpecScan == InitScan /\ [][NextScan]_vars

\* One loop beside the producer, with segments that can go away.
NextReopen ==
    \/ Producer
    \/ SegmentsLost
    \/ (\A t \in Threads : pc[t] = "idle") /\ startUpdating
    \/ Tick(1)

SpecReopen == Init /\ [][NextReopen]_vars

\* One loop beside a producer of scoring frames (without a player, or with the
\* player in the last slot), and a consumer that calls the accessors from
\* construction on.
NextAccess ==
    \/ \E flags \in {FlagsNone, FlagsAt(NumSlots - 1)} : ProducerBeginScor(flags, MaxVersion)
    \/ ProducerEndScor
    \/ (\A t \in Threads : pc[t] = "idle") /\ startUpdating
    \/ Tick(1)
    \/ \E which \in {"tele", "scor"} : syncedBegin(which)
    \/ syncedEnd

SpecAccess == Init /\ [][NextAccess]_vars

\* The first call of startUpdating.
StartOnce == (\A t \in Threads : pc[t] = "idle") /\ startUpdating

\* One loop beside the producer, where the consumer does start the loop and the
\* thread, a daemon that nobody stops, keeps being scheduled.
SpecFrozen == Init /\ [][NextLoop]_vars /\ WF_vars(StartOnce) /\ WF_vars(Tick(1))

\* --------------------------------------------------------------- claims
\* Thread t has finished the publish step of a tick (lines 152-159).
Published(t) == pc[t] = "freeze"
\* Thread t has finished a tick.
TickEnd(t) == pc[t] = "loop" /\ pre[t] # None
Torn(d) == d # None /\ d.vb # d.ve
NoPlayerFlag(d) == d # None /\ \A s \in Slots : d.veh[s].mIsPlayer # 1
\* Some telemetry slot of the tick's copy carries the id of the player's scoring slot.
IdsMatch(t) ==
    /\ data_scor[t] # None /\ data_tele[t] # None
    /\ PlayerScan(data_scor[t], 0) >= 0
    /\ \E j \in Slots :
          data_tele[t].veh[j].mID = data_scor[t].veh[PlayerScan(data_scor[t], 0)].mID

\* C1: the publish step of a tick changes the published view (LastScor,
\* LastTele, players_index) only if the tick's copies have a player scoring
\* slot and a telemetry slot with the same id; otherwise the view is as it was
\* when the tick began.
C1_PublishOnlyOnMatch ==
    \A t \in Threads : (Published(t) /\ View # pre[t]) => IdsMatch(t)

\* C2: a tick whose scoring copy or telemetry copy has mVersionUpdateBegin #
\* mVersionUpdateEnd ends with the published view it began with.
C2_TornTickKeepsView ==
    \A t \in Threads :
        (TickEnd(t) /\ (Torn(data_scor[t]) \/ Torn(data_tele[t]))) => View = pre[t]

\* C3: what an accessor returns is the record and the players_index of one
\* committed view: the one in place when the call began, or one a tick has
\* committed since (seen once no tick is in its publish step).
C3_NoMixedRead ==
    (observed # None /\ \A t \in Threads : pc[t] \notin {"pub_scor", "pub_tele"}) =>
        \E c \in committed :
            /\ c.idx = observed.idx
            /\ observed.rec = (IF observed.which = "tele" THEN c.tele ELSE c.scor)

\* C4: once stopUpdating() has returned, and until the next start, a loop thread
\* takes no step but the exit from its while-loop: no copy of a segment, no
\* reset_mmap, no write of the published view.
C4_StopWaitsForLoop ==
    [][(stopReturned /\ stopReturned') =>
         \A t \in Threads : pc'[t] # pc[t] => pc'[t] = "done"]_vars

\* C5: at most one thread executes __infoUpdate at any time, whatever the
\* sequence of startUpdating()/stopUpdating() calls.
C5_SingleLoop == Cardinality({t \in Threads : InLoop(t)}) <= 1

\* C6: after the publish step of a tick whose copies are both verified, with the
\* player's scoring slot at position i with id k and telemetry slot j with id k,
\* the view is that of the tick's copies and syncedVehicleTelemetry() returns
\* telemetry slot j.
C6_TeleLocatedById ==
    \A t \in Threads : \A j \in Slots :
        ( /\ Published(t)
          /\ data_scor[t] # None /\ data_tele[t] # None
          /\ dataVerified(data_scor[t]) /\ dataVerified(data_tele[t])
          /\ PlayerScan(data_scor[t], 0) >= 0
          /\ data_tele[t].veh[j].mID = data_scor[t].veh[PlayerScan(data_scor[t], 0)].mID )
        => ( /\ LastScor = data_scor[t]
             /\ LastTele = data_tele[t]
             /\ players_index = PlayerScan(data_scor[t], 0)
             /\ LastTele.veh[players_index] = data_tele[t].veh[j] )

\* C7: a tick whose scoring copy has no slot with mIsPlayer = 1, in a run where
\* the producer has advanced its stamp before every tick, ends with the
\* published view it began with: nothing is overwritten or reset to default.
C7_NoPlayerKeepsView ==
    \A t \in Threads :
        (TickEnd(t) /\ steady[t] /\ NoPlayerFlag(data_scor[t])) => View = pre[t]

\* C8: while the producer's scoring stamp does not change, set_default_mmap is
\* called at most once.
C8_OneDefaultPerFreeze == defaults <= 1

\* C9: the published records are never torn: mVersionUpdateBegin equals
\* mVersionUpdateEnd in LastScor and in LastTele, in every state.
C9_NoTornPublished == ~Torn(LastScor) /\ ~Torn(LastTele)

\* C10: every close() of the consumer returns with all four mappings released.
C10_CloseReleasesAll == lastClose # "BufferError"

\* Thread t's tick has called reset_mmap (line 167).
Remapped(t) == did[t] \in {"reset", "both"}
\* Thread t's tick has called set_default_mmap (line 182).
Defaulted(t) == did[t] \in {"default", "both"}

\* C11: a tick calls reset_mmap only if some tick of the loop has copied a
\* scoring stamp the producer had not advanced since the tick before: a loop
\* whose every tick has copied a new stamp never declares a freeze.
C11_ResetOnlyWhenStampStalls ==
    \A t \in Threads : (TickEnd(t) /\ Remapped(t)) => ~steady[t]

\* The producer's scoring stamp rests at v.
StampRests(v) == shmScor.vb = v /\ shmScor.ve = v

\* C12: if the producer's scoring stamp stays at a non-zero value from some
\* point on while the loop keeps running, the loop eventually calls reset_mmap
\* and after that eventually calls set_default_mmap.
C12_FrozenProducerReset ==
    \A v \in 1 .. MaxVersion :
        (<>[]StampRests(v)) => <>(Remapped(1) /\ <>Defaulted(1))

\* Thread t is in the frozen mode after a remap: reset_mmap has recorded a
\* non-zero re_version_update and mmap_restarted is still true.
FrozenMode(t) == mmap_restarted[t] /\ re_version_update[t] > 0
\* The producer has written to the scoring segment since the last remap, whose
\* start_mmap copied the segment to DefScor.
StampMovedSinceRemap == shmScor.vb # DefScor.vb \/ shmScor.ve # DefScor.ve

\* C13: the loop leaves the frozen mode (mmap_restarted true after a remap
\* becomes false) only in a tick at which the producer's scoring stamp differs
\* from its value when the freeze was declared; in particular not in a tick
\* that has published no scoring copy while the stamp is what it was.
C13_FrozenEndsOnNewStamp ==
    [][\A t \in Threads :
         (FrozenMode(t) /\ ~mmap_restarted'[t] /\ pre[t] # None /\ LastScor = pre[t].scor)
            => StampMovedSinceRemap]_vars

\* The player's published telemetry is what it was when thread t's tick began,
\* and it is frame data (a non-zero mElapsedTime), not a cleared record.
HeldFromLive(t) ==
    /\ Veh(LastTele, players_index) = Veh(pre[t].tele, players_index)
    /\ Veh(LastTele, players_index).mElapsedTime > 0

\* C14: after a tick that has called set_default_mmap, the player's published
\* telemetry no longer holds the values it held before: a default restore
\* clears the data of the last live tick.
C14_DefaultClearsLiveData ==
    \A t \in Threads : (TickEnd(t) /\ Defaulted(t)) => ~HeldFromLive(t)

\* C15: whenever the loop is about to overwrite LastScor (line 153) or LastTele
\* (line 159), players_index is the position found by scanning the scoring copy
\* of that same tick; no position resolved by an earlier tick is used.
C15_IndexRescannedEachTick ==
    \A t \in Threads :
        pc[t] \in {"pub_scor", "pub_tele"} =>
            /\ PlayerScan(data_scor[t], 0) >= 0
            /\ players_index = PlayerScan(data_scor[t], 0)

\* C15 happens: the first publish after a remap, of a frame in which the player
\* has moved to another slot than the one resolved before the freeze.
C15_Witness ==
    \E t \in Threads :
        /\ Published(t) /\ FrozenMode(t)
        /\ LastScor = data_scor[t] /\ LastScor.ve # re_version_update[t]
        /\ pre[t].idx # InitIndex /\ players_index # pre[t].idx

\* Thread t takes the step of line 152 on a verified scoring copy.
ScanStep(t) ==
    /\ pc[t] = "verify" /\ pc'[t] # "verify"
    /\ data_scor[t] # None /\ dataVerified(data_scor[t])

\* C16: __playerVerified returns True (the tick goes on to line 153) with
\* players_index at a position whose mIsPlayer is 1 and before which no
\* mIsPlayer is 1, when some position of the array has mIsPlayer = 1; values
\* other than 1 do not count. Otherwise it returns False (the tick goes on to
\* line 162) and players_index is what it was.
C16_FirstExactPlayerFlag ==
    [][\A t \in Threads : ScanStep(t) =>
         IF \E p \in 0 .. (ArraySize - 1) : Veh(data_scor[t], p).mIsPlayer = 1
         THEN /\ pc'[t] = "pub_scor"
              /\ players_index' \in 0 .. (ArraySize - 1)
              /\ Veh(data_scor[t], players_index').mIsPlayer = 1
              /\ \A q \in 0 .. (players_index' - 1) : Veh(data_scor[t], q).mIsPlayer # 1
         ELSE /\ pc'[t] = "freeze"
              /\ players_index' = players_index]_vars

\* C16 happens: the scan has passed a slot whose mIsPlayer is neither 0 nor 1
\* and has stopped at a later slot.
C16_Witness ==
    \E t \in Threads :
        /\ pc[t] = "pub_scor"
        /\ Veh(data_scor[t], 0).mIsPlayer > 1
        /\ players_index > 0
        /\ pre[t].idx # players_index

\* C17: when start_mmap fails inside a freeze-triggered reset_mmap, the instance
\* is not left with data_updating true: the failure stops the updating as a
\* failed start would.
C17_ReopenFailureStopsUpdating ==
    \A t \in Threads : did[t] = "reopen_failed" => ~data_updating

\* The player's slot carries the same id in both published records, and both
\* records have mVersionUpdateBegin = mVersionUpdateEnd.
ViewSynced(scor, tele, index) ==
    /\ Veh(tele, index).mID = Veh(scor, index).mID
    /\ dataVerified(tele) /\ dataVerified(scor)

TelePublishedInTick(t) ==
    /\ data_scor[t] # None /\ data_tele[t] # None
    /\ dataVerified(data_scor[t]) /\ PlayerScan(data_scor[t], 0) >= 0
    /\ dataVerified(data_tele[t])
    /\ Veh(data_tele[t], PlayerScan(data_scor[t], 0)).mID
          = Veh(data_scor[t], PlayerScan(data_scor[t], 0)).mID
    /\ data_tele[t] # pre[t].tele

C19_NoRemapWhileVersionStays ==
    [][\A t \in Threads :
         (pc[t] = "freeze" /\ pc'[t] # "freeze" /\ did'[t] \in {"reset", "both"}) =>
            /\ ~mmap_restarted[t]
            /\ LastScor.ve # re_version_update[t]]_vars

\* C19 happens: a check window has ended after a remap with the published
\* scoring version still the one recorded at the remap, and the tick has not
\* remapped again.
C19_Witness ==
    \E t \in Threads :
        /\ TickEnd(t) /\ FrozenMode(t)
        /\ LastScor.ve = re_version_update[t]
        /\ last_version_update[t] = LastScor.ve
        /\ check_counter[t] = 0 /\ restore_counter[t] = RestoreCap
        /\ did[t] = "nothing"

\* C20: in every state players_index is a position of the 128-entry vehicle
\* array, and no accessor call has ended in an IndexError.
C20_IndexInArray ==
    /\ players_index \in 0 .. (ArraySize - 1)
    /\ observed # None => observed.result # [IndexError |-> TRUE]

\* C20 happens: an accessor has returned before the first successful
\* synchronization, with players_index still at its initial value.
C20_Witness ==
    /\ observed # None
    /\ observed.idx = InitIndex
    /\ players_index = InitIndex
    /\ \E t \in Threads : TickEnd(t)

====
